---- MODULE Spec2Model ----
(***************************************************************************)
(* Model of the curses dialog boxes of cncterm (curses_dialog.py):         *)
(* DialogBox (message box), DialogListBox and DialogEntryBox, with the     *)
(* keystroke decoder DialogBox.get_cmd they share.                         *)
(*                                                                         *)
(* A state is taken where show() is blocked in get_cmd (after the redraw   *)
(* of the loop iteration) or has returned.  One step of a dialog is one    *)
(* iteration of its input loop: get_cmd, the dispatch of the command, the  *)
(* fix-up of cursor and viewport and the redraw that follows.              *)
(***************************************************************************)
EXTENDS Integers, Sequences, FiniteSets, TLC

VARIABLES
  kind,            \* class of the dialog object: "msg", "list", "entry"
  self_h,          \* self.h = h-2, set by DialogBox.__init__
  pc,              \* "idle", "active", "returned", "raised"
  nb,              \* len(buttons) of the running show()
  default,         \* show()'s default argument
  start_index,     \* DialogListBox.show()'s start_index argument
  current_b,       \* focused button
  entries,         \* list box: sequence of <<first character, attribute>>
  cursor_indx,     \* list box: selected entry (0-based, as in the code)
  start_indx,      \* list box: first entry drawn (0-based)
  item_disp_ct,    \* list box: entry rows of the last redraw
  last_item_indx,  \* list box: end (exclusive) of the entries drawn
  entry_val,       \* entry box: text typed so far (sequence of bytes)
  c,               \* the command get_cmd returned last
  result,          \* what show() returned
  typed,           \* keyboard: the keystrokes typed and not yet read
  head_whole,      \* keyboard: no byte of the first of them was read yet
  dec_cmd,         \* decoder: what the last get_cmd call returned
  dec_taken,       \* decoder: the bytes that call read
  dec_key,         \* decoder: the keystroke that was first in line for it
  self_w,          \* wrap: self.w, the window width less the border
  text,            \* wrap: the text show() is given (sequence of bytes)
  wrap_i,          \* wrap: i, the index of the next character of text
  wrap_j,          \* wrap: j, the column count
  wrap_k,          \* wrap: k, the index of the last space, or -1
  msg,             \* wrap: the wrapped text built so far
  lines,           \* wrap: the line count
  screen,          \* draw: the characters of msg written, as <<y, x, ch>>
  ey,              \* draw: the row of the entry field
  ex,              \* draw: the column the entry field starts at
  reused,          \* the call of show is not the first on this dialog object
  pin_abort,       \* hal: self.c["abort"] as the last poll found it
  pin_singleblock, \* hal: self.c["single-block"] at the last poll
  pin_cyclestart,  \* hal: self.c["cycle-start"] at the last poll
  pin_light,       \* hal: self.c["status-light"]
  pin_jog,         \* hal: self.c["jog.active"]
  hal_abort,       \* hal: self.abort
  hal_singleblock, \* hal: self.singleblock
  hal_cyclestart,  \* hal: self.cyclestart
  stat,            \* hal: self.stat as the last poll found it
  sent,            \* hal: the commands the last poll sent through self.cmd
  reached,         \* hal: where the last poll ended
  held,            \* hal: a start was sent and cycle-start was high ever since
  tick             \* hal: the parity of the number of polls made

vars == <<kind, self_h, pc, nb, default, start_index, current_b, entries,
          cursor_indx, start_indx, item_disp_ct, last_item_indx, entry_val,
          c, result, typed, head_whole, dec_cmd, dec_taken, dec_key,
          self_w, text, wrap_i, wrap_j, wrap_k, msg, lines, screen, ey, ex,
          reused, pin_abort, pin_singleblock, pin_cyclestart, pin_light,
          pin_jog, hal_abort, hal_singleblock, hal_cyclestart, stat, sent,
          reached, held, tick>>

halvars == <<pin_abort, pin_singleblock, pin_cyclestart, pin_light, pin_jog,
             hal_abort, hal_singleblock, hal_cyclestart, stat, sent, reached,
             held, tick>>

wrapvars == <<self_w, text, wrap_i, wrap_j, wrap_k, msg, lines, screen, ey, ex>>

kbdvars == <<typed, head_whole, dec_cmd, dec_taken, dec_key>>

dlgvars == <<current_b, entries, cursor_indx, start_indx, item_disp_ct,
             last_item_indx, entry_val>>

----------------------------------------------------------------------------
(* Command codes, curses_dialog.py:31-41 *)
UP == 1
DOWN == 2
RIGHT == 3
LEFT == 4
SELECT == 5
ESCAPE == 6
PGUP == 7
PGDN == 8
HOME == 9
END == 10
BACKSPACE == 11
NOOP == 0
PRINTABLE == 1000

A_NORMAL == "A_NORMAL"
A_STANDOUT == "A_STANDOUT"

(* Bytes the decoder names *)
NL == 10
ESC == 27
LBRACKET == 91
RBRACKET == 93
DEL == 127
BS == 8
CH_A == 65
CH_B == 66
CH_C == 67
CH_D == 68
CH_5 == 53
CH_6 == 54
CH_O == 79
CH_H == 72
CH_F == 70

----------------------------------------------------------------------------
(* Bounds of the model *)
MaxHeight == 5      \* list box heights h run over MinHeight..MaxHeight
MaxTotal == 3       \* list lengths run over 0..MaxTotal
MaxButtons == 2     \* button counts run over 0..MaxButtons
MaxLen == 2         \* typing stops at MaxLen characters
NegStart == 1       \* start indexes run over -NegStart..total

MinHeight == 3

(* Heights of the entry boxes cncterm.py opens (message boxes likewise) *)
EntryHeights == {4, 6}

(* Keys the user presses first, and the bytes that may follow an ESC byte, *)
(* ESC [ and ESC O                                                         *)
FirstBytes == {1, BS, NL, ESC, 32, 71, 97, LBRACKET, RBRACKET, DEL}
SecondBytes == {NL, LBRACKET, CH_O}
CsiBytes == {CH_A, CH_B, CH_C, CH_D, CH_5, CH_6, 90}
Ss3Bytes == {CH_H, CH_F}

----------------------------------------------------------------------------
(* DialogBox.get_cmd: the command for the bytes at the head of stream s    *)
(* and the number of bytes read; blocked when the stream ends before the   *)
(* decoder has all the bytes it asks for.                                  *)
Masked(x) == x % 256

(* The test for printable ASCII of line 159 *)
IsPrintable_Mut(b) == b > 32 /\ b < 127
IsPrintable(b) == b > 31 /\ b < 127

(* The command for the byte after ESC [ and after ESC O *)
CsiCmd_Mut(c3) ==
  IF c3 = CH_A THEN UP
  ELSE IF c3 = CH_B THEN DOWN
  ELSE IF c3 = CH_C THEN LEFT
  ELSE IF c3 = CH_D THEN RIGHT
  ELSE IF c3 = CH_5 THEN PGUP
  ELSE IF c3 = CH_6 THEN PGDN
  ELSE NOOP

CsiCmd(c3) ==
  IF c3 = CH_A THEN UP
  ELSE IF c3 = CH_B THEN DOWN
  ELSE IF c3 = CH_C THEN RIGHT
  ELSE IF c3 = CH_D THEN LEFT
  ELSE IF c3 = CH_5 THEN PGUP
  ELSE IF c3 = CH_6 THEN PGDN
  ELSE NOOP

Ss3Cmd(c3) ==
  IF c3 = CH_H THEN HOME
  ELSE IF c3 = CH_F THEN END
  ELSE NOOP

get_cmd(s) ==
  LET c1 == s[1] IN
  IF c1 = NL THEN [cmd |-> SELECT, n |-> 1, blocked |-> FALSE]
  ELSE IF Masked(c1) = LBRACKET THEN [cmd |-> HOME, n |-> 1, blocked |-> FALSE]
  ELSE IF Masked(c1) = RBRACKET THEN [cmd |-> END, n |-> 1, blocked |-> FALSE]
  ELSE IF IsPrintable(Masked(c1))
       THEN [cmd |-> PRINTABLE + Masked(c1) - 32, n |-> 1, blocked |-> FALSE]
  ELSE IF c1 = DEL \/ c1 = BS THEN [cmd |-> BACKSPACE, n |-> 1, blocked |-> FALSE]
  ELSE IF c1 = ESC THEN
    IF Len(s) < 2 THEN [cmd |-> NOOP, n |-> 1, blocked |-> TRUE]
    ELSE LET c2 == s[2] IN
      IF c2 = LBRACKET THEN
        IF Len(s) < 3 THEN [cmd |-> NOOP, n |-> 2, blocked |-> TRUE]
        ELSE LET c3 == s[3] IN
          [cmd |-> CsiCmd(c3), n |-> 3, blocked |-> FALSE]
      ELSE IF c2 = CH_O THEN
        IF Len(s) < 3 THEN [cmd |-> NOOP, n |-> 2, blocked |-> TRUE]
        ELSE LET c3 == s[3] IN
          [cmd |-> Ss3Cmd(c3), n |-> 3, blocked |-> FALSE]
      ELSE [cmd |-> NOOP, n |-> 2, blocked |-> FALSE]
  ELSE [cmd |-> NOOP, n |-> 1, blocked |-> FALSE]

(* The input streams of one get_cmd call: a first byte and the bytes that  *)
(* arrive after it, cut where get_cmd stops reading.                       *)
Streams ==
  LET cand == { <<a>> : a \in FirstBytes }
              \cup { <<ESC, b>> : b \in SecondBytes }
              \cup { <<ESC, LBRACKET, d>> : d \in CsiBytes }
              \cup { <<ESC, CH_O, d>> : d \in Ss3Bytes }
  IN { s \in cand : ~get_cmd(s).blocked /\ get_cmd(s).n = Len(s) }

----------------------------------------------------------------------------
(* Return values of show(): an int, a pair of ints or (int, string) *)
NoResult == [shape |-> "none", first |-> 0, kind2 |-> "none", int2 |-> 0, str2 |-> <<>>]
RetInt(a) == [shape |-> "int", first |-> a, kind2 |-> "none", int2 |-> 0, str2 |-> <<>>]
RetPair(a, b) == [shape |-> "pair", first |-> a, kind2 |-> "int", int2 |-> b, str2 |-> <<>>]
RetPairStr(a, s) == [shape |-> "pair", first |-> a, kind2 |-> "str", int2 |-> 0, str2 |-> s]

(* The (-1, -1) all three loops return on ESCAPE *)
Cancelled_Mut == RetInt(-1)
Cancelled == RetPair(-1, -1)

(* The test that ends the three loops with the focused button, lines 129, *)
(* 283, 441: elif c == SELECT                                              *)
IsSelect_Mut(cmd) == FALSE
IsSelect(cmd) == cmd = SELECT

(* What the message box returns on SELECT, line 131 *)
MsgSelected_Mut(b) == RetInt(0)
MsgSelected(b) == RetInt(b)

(* What the list box and the entry box return on SELECT *)
ListSelected_Mut(b, cur) == RetPair(cur, b)
ListSelected(b, cur) == RetPair(b, cur)

EntrySelected_Mut(b, val) == RetPairStr(b, <<>>)
EntrySelected(b, val) == RetPairStr(b, val)

(* Python indexing of a list of n elements by i (negative i counts from    *)
(* the end), as a 1-based TLA+ index; IndexError outside -n..n-1.          *)
PyValid(i, n) == i >= -n /\ i < n
PyIdx(i, n) == IF i < 0 THEN i + n + 1 ELSE i + 1

(* string.lower on one byte *)
lower(x) == IF x >= 65 /\ x <= 90 THEN x + 32 ELSE x

----------------------------------------------------------------------------
(* The button focus after command cmd: the LEFT and RIGHT branches that    *)
(* the three show() loops share.                                           *)
ButtonStep_Mut(cmd, b, n) ==
  IF cmd = LEFT THEN (IF b - 1 < 0 THEN 0 ELSE b - 1)
  ELSE IF cmd = RIGHT THEN (IF b + 1 > n - 1 THEN 0 ELSE b + 1)
  ELSE b

ButtonStep(cmd, b, n) ==
  IF cmd = LEFT THEN (IF b - 1 < 0 THEN n - 1 ELSE b - 1)
  ELSE IF cmd = RIGHT THEN (IF b + 1 > n - 1 THEN 0 ELSE b + 1)
  ELSE b

----------------------------------------------------------------------------
(* DialogListBox *)

(* The lists shown: n entries whose first characters repeat a pattern      *)
(* (Apple, Banana, Avocado, ...).                                          *)
Patterns == { <<65, 66, 65>> }
ListOf(p, n) == [i \in 1..n |-> p[((i - 1) % Len(p)) + 1]]
Lists == { ListOf(p, n) : p \in Patterns, n \in 0..MaxTotal }

Total == Len(entries)
Label(ents, i) == ents[PyIdx(i, Len(ents))][1]
Attr(ents, i) == ents[PyIdx(i, Len(ents))][2]
SetAttr_Mut(ents, i, a) ==
  IF PyValid(i, Len(ents)) /\ a = A_STANDOUT
  THEN [ents EXCEPT ![PyIdx(i, Len(ents))] = <<ents[PyIdx(i, Len(ents))][1], a>>]
  ELSE ents

SetAttr(ents, i, a) ==
  IF PyValid(i, Len(ents))
  THEN [ents EXCEPT ![PyIdx(i, Len(ents))] = <<ents[PyIdx(i, Len(ents))][1], a>>]
  ELSE ents

(* Line 214, entries[cursor_indx][1] = A_STANDOUT, raises IndexError when  *)
(* start is no index of the n entries; no index is one of an empty list    *)
HighlightRaises_Mut(start, n) == n > 0 /\ ~PyValid(start, n)
HighlightRaises(start, n) == ~PyValid(start, n)

(* The redraw at the top of the loop, for viewport start s, n entries and  *)
(* self.h = h: item_disp_ct, last_item_indx and the two "..." indicators.  *)
ListRedraw(s, n, h) ==
  LET above == s > 0
      ct1 == IF above THEN (h - 1) - 1 ELSE h - 1
      last1 == s + ct1
  IN IF last1 > n
     THEN [ct |-> n - s, last |-> n, above |-> above, below |-> FALSE]
     ELSE [ct |-> ct1 - 1, last |-> last1 - 1, above |-> above, below |-> TRUE]

(* The entries the redraw writes: range(start_indx, last_item_indx) *)
Drawn(s, last) == { i \in s..(last - 1) : TRUE }

Min(S) == CHOOSE x \in S : \A y \in S : x <= y

(* The jump of a printable command: the first match after the cursor,      *)
(* else the first match before it, else the cursor itself.                 *)
JumpTo(cmd, cur, ents) ==
  LET jumpTo == lower(32 + (cmd - PRINTABLE))
      n == Len(ents)
      fwd == { i \in (cur + 1)..(n - 1) : lower(Label(ents, i)) = jumpTo }
      back == { i \in 0..(cur - 1) : lower(Label(ents, i)) = jumpTo }
  IN IF fwd # {} THEN Min(fwd)
     ELSE IF back # {} THEN Min(back)
     ELSE cur

(* The cursor a command asks for, before it is clamped *)
CursorMove(cmd, cur, ct, ents) ==
  IF cmd = UP THEN cur - 1
  ELSE IF cmd = DOWN THEN cur + 1
  ELSE IF cmd = PGDN THEN cur + ct
  ELSE IF cmd = PGUP THEN cur - ct
  ELSE IF cmd = HOME THEN 0
  ELSE IF cmd = END THEN Len(ents) - 1
  ELSE IF cmd >= PRINTABLE THEN JumpTo(cmd, cur, ents)
  ELSE cur

ClampCursor(cur, n) ==
  IF cur < 0 THEN (IF 0 >= n THEN n - 1 ELSE 0)
  ELSE IF cur >= n THEN n - 1
  ELSE cur

Recenter(cur, ct) ==
  LET s == cur - (ct \div 2) IN IF s < 0 THEN 0 ELSE s

(* The viewport start after the two fix-up tests *)
FixStart(cur, s, ct) ==
  LET s1 == IF cur < s THEN Recenter(cur, ct) ELSE s
  IN IF cur >= s1 + ct THEN Recenter(cur, ct) ELSE s1

----------------------------------------------------------------------------
(* The keyboard with nothing typed and no get_cmd call made *)
NoCmd == -1
KbdIdle ==
  /\ typed = <<>> /\ head_whole = TRUE
  /\ dec_cmd = NoCmd /\ dec_taken = <<>> /\ dec_key = <<>>

(* No text given to wrap *)
WrapIdle ==
  /\ self_w = 0 /\ text = <<>>
  /\ wrap_i = 0 /\ wrap_j = 0 /\ wrap_k = -1
  /\ msg = <<>> /\ lines = 0
  /\ screen = {} /\ ey = 0 /\ ex = 0

(* HALInterface.__init__ (hal_interface.py lines 8-30): the pins are new,    *)
(* self.abort, self.singleblock and self.cyclestart are 0, and poll has     *)
(* not run. The dialog specifications keep the interface in this state.     *)
NoStat == [paused |-> FALSE, idle |-> TRUE, queue |-> FALSE, manual |-> TRUE]

HalIdle ==
  /\ pin_abort = FALSE /\ pin_singleblock = FALSE /\ pin_cyclestart = FALSE
  /\ pin_light = FALSE /\ pin_jog = FALSE
  /\ hal_abort = FALSE /\ hal_singleblock = FALSE /\ hal_cyclestart = FALSE
  /\ stat = NoStat
  /\ sent = <<>>
  /\ reached = "new"
  /\ held = FALSE
  /\ tick = 0

(* No dialog constructed: the values the dialog variables keep in the      *)
(* specifications of the decoder alone.                                    *)
NoDialog ==
  /\ kind = "none" /\ self_h = 0 /\ pc = "idle"
  /\ nb = 0 /\ default = 0 /\ start_index = 0
  /\ current_b = 0
  /\ entries = <<>>
  /\ cursor_indx = 0 /\ start_indx = 0
  /\ item_disp_ct = 0 /\ last_item_indx = 0
  /\ entry_val = <<>>
  /\ c = NOOP
  /\ result = [shape |-> "none", first |-> 0, kind2 |-> "none", int2 |-> 0, str2 |-> <<>>]
  /\ reused = FALSE
  /\ HalIdle

(* Construction: DialogBox.__init__ keeps self.h = h-2; nothing is shown *)
Init ==
  /\ KbdIdle /\ WrapIdle
  /\ \/ kind = "list" /\ \E h \in MinHeight..MaxHeight : self_h = h - 2
     \/ kind \in {"msg", "entry"} /\ \E h \in EntryHeights : self_h = h - 2
  /\ pc = "idle"
  /\ nb = 0 /\ default = 0 /\ start_index = 0
  /\ current_b = 0
  /\ entries = <<>>
  /\ cursor_indx = 0 /\ start_indx = 0
  /\ item_disp_ct = 0 /\ last_item_indx = 0
  /\ entry_val = <<>>
  /\ c = NOOP
  /\ result = NoResult
  /\ reused = FALSE
  /\ HalIdle

(* show() is first called on a dialog just constructed *)
CanShow == pc = "idle"

(* show() can be called whenever no call of it is running: on a dialog     *)
(* just constructed, and again once a call has returned.                   *)
NotRunning == pc \in {"idle", "returned"}

(* Line 429, entry_val = "": whatever a call before left is dropped *)
InitialValue_Mut(prev) == prev
InitialValue(prev) == <<>>

(* show() has returned: its locals are gone, the dialog object stays *)
Discard ==
  /\ pc = "returned"
  /\ pc' = "idle"
  /\ nb' = 0 /\ default' = 0 /\ start_index' = 0
  /\ current_b' = 0
  /\ entries' = <<>>
  /\ cursor_indx' = 0 /\ start_indx' = 0
  /\ item_disp_ct' = 0 /\ last_item_indx' = 0
  /\ entry_val' = <<>>
  /\ c' = NOOP
  /\ result' = NoResult
  /\ reused' = FALSE
  /\ UNCHANGED halvars
  /\ UNCHANGED <<kind, self_h>>
  /\ UNCHANGED <<kbdvars, wrapvars>>

(* DialogBox.show up to its input loop *)
ShowMsg(n, dflt) ==
  /\ kind = "msg" /\ NotRunning
  /\ nb' = n /\ default' = dflt /\ start_index' = 0
  /\ c' = NOOP
  /\ entries' = <<>> /\ cursor_indx' = 0 /\ start_indx' = 0
  /\ item_disp_ct' = 0 /\ last_item_indx' = 0 /\ entry_val' = <<>>
  /\ IF n = 0
     THEN pc' = "returned" /\ result' = RetInt(-1) /\ current_b' = 0
     ELSE pc' = "active" /\ result' = NoResult /\ current_b' = dflt
  /\ reused' = (pc = "returned")
  /\ UNCHANGED halvars
  /\ UNCHANGED <<kind, self_h>>
  /\ UNCHANGED <<kbdvars, wrapvars>>

(* DialogListBox.show up to the first redraw of its input loop *)
ShowList(n, list, dflt, start) ==
  /\ kind = "list" /\ NotRunning
  /\ nb' = n /\ default' = dflt /\ start_index' = start
  /\ c' = NOOP
  /\ entry_val' = <<>>
  /\ IF n = 0
     THEN /\ pc' = "returned" /\ result' = RetInt(-1) /\ current_b' = 0
          /\ entries' = <<>> /\ cursor_indx' = 0 /\ start_indx' = 0
          /\ item_disp_ct' = 0 /\ last_item_indx' = 0
     ELSE LET ents == [i \in 1..Len(list) |-> <<list[i], A_NORMAL>>] IN
          IF HighlightRaises(start, Len(list))
          THEN \* entries[cursor_indx] raises IndexError
               /\ pc' = "raised" /\ result' = NoResult /\ current_b' = 0
               /\ entries' = ents /\ cursor_indx' = start /\ start_indx' = start
               /\ item_disp_ct' = 0 /\ last_item_indx' = 0
          ELSE LET d == ListRedraw(start, Len(list), self_h) IN
               /\ pc' = "active" /\ result' = NoResult /\ current_b' = dflt
               /\ entries' = SetAttr(ents, start, A_STANDOUT)
               /\ cursor_indx' = start /\ start_indx' = start
               /\ item_disp_ct' = d.ct /\ last_item_indx' = d.last
  /\ reused' = (pc = "returned")
  /\ UNCHANGED halvars
  /\ UNCHANGED <<kind, self_h>>
  /\ UNCHANGED <<kbdvars, wrapvars>>

(* DialogEntryBox.show up to its input loop *)
ShowEntry(n, dflt) ==
  /\ kind = "entry" /\ NotRunning
  /\ nb' = n /\ default' = dflt /\ start_index' = 0
  /\ c' = NOOP
  /\ entries' = <<>> /\ cursor_indx' = 0 /\ start_indx' = 0
  /\ item_disp_ct' = 0 /\ last_item_indx' = 0
  /\ entry_val' = InitialValue(entry_val)
  /\ IF n = 0
     THEN pc' = "returned" /\ result' = RetInt(-1) /\ current_b' = 0
     ELSE pc' = "active" /\ result' = NoResult /\ current_b' = dflt
  /\ reused' = (pc = "returned")
  /\ UNCHANGED halvars
  /\ UNCHANGED <<kind, self_h>>
  /\ UNCHANGED <<kbdvars, wrapvars>>

(* One iteration of DialogBox.show's loop on command cmd *)
MsgDispatch(cmd) ==
  /\ kind = "msg" /\ pc = "active"
  /\ IF IsSelect(cmd)
     THEN pc' = "returned" /\ result' = MsgSelected(current_b) /\ UNCHANGED current_b
     ELSE IF cmd = ESCAPE
     THEN pc' = "returned" /\ result' = Cancelled /\ UNCHANGED current_b
     ELSE /\ current_b' = ButtonStep(cmd, current_b, nb)
          /\ UNCHANGED <<pc, result>>
  /\ UNCHANGED <<kind, self_h, reused, halvars, nb, default, start_index, entries, cursor_indx,
                 start_indx, item_disp_ct, last_item_indx, entry_val>>
  /\ UNCHANGED <<kbdvars, wrapvars>>

(* One iteration of DialogListBox.show's loop on command cmd, with the     *)
(* redraw that opens the next iteration.                                   *)
ListDispatch(cmd) ==
  /\ kind = "list" /\ pc = "active"
  /\ IF IsSelect(cmd)
     THEN /\ pc' = "returned" /\ result' = ListSelected(current_b, cursor_indx)
          /\ UNCHANGED dlgvars
     ELSE IF cmd = ESCAPE
     THEN /\ pc' = "returned" /\ result' = Cancelled
          /\ UNCHANGED dlgvars
     ELSE LET cleared == SetAttr(entries, cursor_indx, A_NORMAL)
              moved == CursorMove(cmd, cursor_indx, item_disp_ct, cleared)
              cur == ClampCursor(moved, Len(entries))
              s == FixStart(cur, start_indx, item_disp_ct)
              d == ListRedraw(s, Len(entries), self_h)
          IN /\ current_b' = ButtonStep(cmd, current_b, nb)
             /\ cursor_indx' = cur
             /\ start_indx' = s
             /\ entries' = SetAttr(cleared, cur, A_STANDOUT)
             /\ item_disp_ct' = d.ct
             /\ last_item_indx' = d.last
             /\ UNCHANGED <<pc, result, entry_val>>
  /\ UNCHANGED <<kind, self_h, reused, halvars, nb, default, start_index>>
  /\ UNCHANGED <<kbdvars, wrapvars>>

(* One iteration of DialogEntryBox.show's loop on command cmd *)
EntryEdit_Mut(cmd, val) ==
  IF cmd = BACKSPACE
  THEN (IF val # <<>> THEN SubSeq(val, 2, Len(val)) ELSE val)
  ELSE IF cmd >= PRINTABLE THEN Append(val, 32 + (cmd - PRINTABLE))
  ELSE val

EntryEdit(cmd, val) ==
  IF cmd = BACKSPACE
  THEN (IF val # <<>> THEN SubSeq(val, 1, Len(val) - 1) ELSE val)
  ELSE IF cmd >= PRINTABLE THEN Append(val, 32 + (cmd - PRINTABLE))
  ELSE val

EntryDispatch(cmd) ==
  /\ kind = "entry" /\ pc = "active"
  /\ cmd >= PRINTABLE => Len(entry_val) < MaxLen
  /\ IF IsSelect(cmd)
     THEN /\ pc' = "returned" /\ result' = EntrySelected(current_b, entry_val)
          /\ UNCHANGED <<current_b, entry_val>>
     ELSE IF cmd = ESCAPE
     THEN /\ pc' = "returned" /\ result' = Cancelled
          /\ UNCHANGED <<current_b, entry_val>>
     ELSE /\ current_b' = ButtonStep(cmd, current_b, nb)
          /\ entry_val' = EntryEdit(cmd, entry_val)
          /\ UNCHANGED <<pc, result>>
  /\ UNCHANGED <<kind, self_h, reused, halvars, nb, default, start_index, entries, cursor_indx,
                 start_indx, item_disp_ct, last_item_indx>>
  /\ UNCHANGED <<kbdvars, wrapvars>>

----------------------------------------------------------------------------
(* The program: every command comes from get_cmd reading the keyboard *)
Buttons == 0..MaxButtons
Defaults(n) == (-1)..n
Starts(list) == (-NegStart)..Len(list)

Show ==
  \/ \E n \in Buttons : \E d \in Defaults(n) : CanShow /\ ShowMsg(n, d)
  \/ \E n \in Buttons : \E d \in Defaults(n) : \E l \in Lists :
       \E s \in Starts(l) : CanShow /\ ShowList(n, l, d, s)
  \/ \E n \in Buttons : \E d \in Defaults(n) : CanShow /\ ShowEntry(n, d)

(* What get_cmd returns on these streams *)
Decoded == { get_cmd(s).cmd : s \in Streams }

MsgKey == \E cmd \in Decoded : MsgDispatch(cmd) /\ c' = cmd

ListKey == \E cmd \in Decoded : ListDispatch(cmd) /\ c' = cmd

EntryKey == \E cmd \in Decoded : EntryDispatch(cmd) /\ c' = cmd

Next == Show \/ Discard \/ MsgKey \/ ListKey \/ EntryKey

Spec == Init /\ [][Next]_vars

(* The dialogs driven command by command: get_cmd replaced by a source of  *)
(* every command code the loops test for.                                  *)
Commands == 0..11 \cup { PRINTABLE + (b - 32) : b \in {32, 71, 97} }

MsgCmd == \E cmd \in Commands : MsgDispatch(cmd) /\ c' = cmd

ListCmd == \E cmd \in Commands : ListDispatch(cmd) /\ c' = cmd

EntryCmd == \E cmd \in Commands : EntryDispatch(cmd) /\ c' = cmd

NextCmd == Show \/ Discard \/ MsgCmd \/ ListCmd \/ EntryCmd

SpecCmd == Init /\ [][NextCmd]_vars

(* One dialog object shown again and again, as open_program does with its  *)
(* file list: show() is called with arguments it accepts, and once it has  *)
(* returned it is called again with the same arguments.                    *)
ShowValid ==
  \/ \E n \in 1..MaxButtons : \E d \in 0..(n - 1) : CanShow /\ ShowMsg(n, d)
  \/ \E n \in 1..MaxButtons : \E d \in 0..(n - 1) : \E l \in Lists :
       \E s \in 0..(Len(l) - 1) : CanShow /\ ShowList(n, l, d, s)
  \/ \E n \in 1..MaxButtons : \E d \in 0..(n - 1) : CanShow /\ ShowEntry(n, d)

Labels(ents) == [i \in 1..Len(ents) |-> ents[i][1]]

ShowAgain ==
  /\ pc = "returned"
  /\ \/ ShowMsg(nb, default)
     \/ ShowList(nb, Labels(entries), default, start_index)
     \/ ShowEntry(nb, default)

NextAgain == ShowValid \/ ShowAgain \/ MsgCmd \/ ListCmd \/ EntryCmd

SpecAgain == Init /\ [][NextAgain]_vars

(* One call of show() with arguments it accepts, its commands read by      *)
(* get_cmd, on a keyboard that sooner or later delivers a newline at a     *)
(* keystroke boundary, which get_cmd decodes as SELECT (line 152).         *)
SelectKey ==
  /\ SELECT \in Decoded
  /\ MsgDispatch(SELECT) \/ ListDispatch(SELECT) \/ EntryDispatch(SELECT)
  /\ c' = SELECT

NextLive == ShowValid \/ MsgKey \/ ListKey \/ EntryKey

SpecLive == Init /\ [][NextLive]_vars /\ WF_vars(SelectKey)

----------------------------------------------------------------------------
(* The decoder on a keyboard stream.  The user types whole keystrokes;     *)
(* get_cmd reads the bytes it asks for from the head of what was typed     *)
(* and blocks while they are not there.                                    *)
MaxPending == 2     \* at most MaxPending keystrokes wait unread

(* What a key press sends: one byte (those of the dialogs and the ends of  *)
(* the printable range), the escape key's lone ESC, the                    *)
(* three-byte sequences the decoder knows, and sequences it does not       *)
(* (ESC [ Z, and the four bytes ESC [ 2 ~ of the insert key).              *)
KeyPresses ==
  { <<a>> : a \in FirstBytes \cup {31, 33, 126} }
    \cup { <<ESC, LBRACKET, d>> : d \in CsiBytes }
    \cup { <<ESC, CH_O, d>> : d \in Ss3Bytes }
    \cup { <<ESC, LBRACKET, 50, 126>> }

RECURSIVE Flatten(_)
Flatten(ks) == IF ks = <<>> THEN <<>> ELSE Head(ks) \o Flatten(Tail(ks))

(* The keystrokes left when n bytes are read from the head of ks *)
RECURSIVE DropBytes(_, _)
DropBytes(ks, n) ==
  IF n = 0 \/ ks = <<>> THEN ks
  ELSE IF n >= Len(Head(ks)) THEN DropBytes(Tail(ks), n - Len(Head(ks)))
  ELSE <<SubSeq(Head(ks), n + 1, Len(Head(ks)))>> \o Tail(ks)

RECURSIVE AtBoundary(_, _)
AtBoundary(ks, n) ==
  IF n = 0 THEN TRUE
  ELSE IF ks = <<>> THEN FALSE
  ELSE IF n >= Len(Head(ks)) THEN AtBoundary(Tail(ks), n - Len(Head(ks)))
  ELSE FALSE

TypeKey(k) ==
  /\ kind = "none"
  /\ Len(typed) < MaxPending
  /\ typed' = Append(typed, k)
  /\ head_whole' = (IF typed = <<>> THEN TRUE ELSE head_whole)
  /\ UNCHANGED <<dec_cmd, dec_taken, dec_key>>
  /\ UNCHANGED <<kind, self_h, reused, halvars, pc, nb, default, start_index, current_b, entries,
                 cursor_indx, start_indx, item_disp_ct, last_item_indx,
                 entry_val, c, result>>
  /\ UNCHANGED wrapvars

(* One call of get_cmd *)
Decode ==
  /\ kind = "none"
  /\ typed # <<>>
  /\ LET s == Flatten(typed)
         r == get_cmd(s)
     IN /\ ~r.blocked
        /\ dec_cmd' = r.cmd
        /\ dec_taken' = SubSeq(s, 1, r.n)
        /\ dec_key' = Head(typed)
        /\ typed' = DropBytes(typed, r.n)
        /\ head_whole' = AtBoundary(typed, r.n)
  /\ UNCHANGED <<kind, self_h, reused, halvars, pc, nb, default, start_index, current_b, entries,
                 cursor_indx, start_indx, item_disp_ct, last_item_indx,
                 entry_val, c, result>>
  /\ UNCHANGED wrapvars

Type == \E k \in KeyPresses : TypeKey(k)

InitDecode == NoDialog /\ KbdIdle /\ WrapIdle

NextDecode == Type \/ Decode

SpecDecode == InitDecode /\ [][NextDecode]_vars

----------------------------------------------------------------------------
(* The word wrap at the head of DialogBox.show (lines 58-80) and of        *)
(* DialogEntryBox.show (lines 361-384), one character of the text at a     *)
(* step.  Texts are sequences of the bytes 'a', space and newline.         *)
MaxText == 5        \* texts of up to MaxText characters
MaxWidth == 3       \* self.w runs over 1..MaxWidth

SP == 32

RECURSIVE TextsOf(_)
TextsOf(n) ==
  IF n = 0 THEN { <<>> }
  ELSE { Append(s, ch) : s \in TextsOf(n - 1), ch \in {97, SP, NL} }

Texts == UNION { TextsOf(n) : n \in 0..MaxText }

(* "abcdefghij klmno" and "abc def ghijklmnop", wrapped in a window with   *)
(* self.w = 10                                                             *)
Example1 == <<97, 98, 99, 100, 101, 102, 103, 104, 105, 106, SP,
              107, 108, 109, 110, 111>>
Example2 == <<97, 98, 99, SP, 100, 101, 102, SP, 103, 104, 105, 106, 107,
              108, 109, 110, 111, 112>>
Examples == { <<Example1, 10>>, <<Example2, 10>> }

(* list.insert(idx, x) of Python *)
ListInsert(s, idx, x) ==
  LET n == Len(s)
      at == IF idx < 0 THEN (IF idx + n < 0 THEN 0 ELSE idx + n)
            ELSE IF idx > n THEN n ELSE idx
  IN SubSeq(s, 1, at) \o <<x>> \o SubSeq(s, at + 1, n)

(* The width j is compared with: self.w in the message box (line 67),      *)
(* w = self.w+1 in the entry box (lines 360, 371)                          *)
WrapWidth == IF kind = "entry" THEN self_w + 1 ELSE self_w

InitWrap ==
  /\ KbdIdle
  /\ kind \in {"msg", "entry"} /\ \E h \in EntryHeights : self_h = h - 2
  /\ pc = "wrap"
  /\ nb = 0 /\ default = 0 /\ start_index = 0
  /\ current_b = 0
  /\ entries = <<>>
  /\ cursor_indx = 0 /\ start_indx = 0
  /\ item_disp_ct = 0 /\ last_item_indx = 0
  /\ entry_val = <<>>
  /\ c = NOOP
  /\ result = NoResult
  /\ reused = FALSE
  /\ HalIdle
  /\ \/ text \in Texts /\ self_w \in 1..MaxWidth
     \/ \E e \in Examples : text = e[1] /\ self_w = e[2]
  /\ wrap_i = 0 /\ wrap_j = 0 /\ wrap_k = -1
  /\ msg = <<>> /\ lines = 0
  /\ screen = {} /\ ey = 0 /\ ex = 0

(* One iteration of the loop of line 60 on character ch = text[i], from   *)
(* the values st of j, k, msg and lines; sw is self.w and lim the width j  *)
(* is compared with                                                        *)
WrapStep(st, ch, i, sw, lim) ==
  LET j1 == IF ch = NL THEN 0 ELSE st.j + 1
      k1 == IF ch = NL THEN -1 ELSE IF ch = SP THEN i ELSE st.k
      l1 == IF ch = NL THEN st.lines + 1 ELSE st.lines
  IN IF j1 > lim
     THEN [j |-> 0, k |-> k1, lines |-> l1 + 1,
           msg |-> IF k1 = -1
                   THEN ListInsert(st.msg, sw - 1, NL)
                   ELSE ListInsert(IF k1 = i THEN Append(st.msg, ch) ELSE st.msg,
                                   k1, NL)]
     ELSE [j |-> j1, k |-> k1, lines |-> l1, msg |-> Append(st.msg, ch)]

(* The loop of lines 60-78 from index i on, and the msg it ends with *)
RECURSIVE WrapFrom(_, _, _, _, _)
WrapFrom(st, t, i, sw, lim) ==
  IF i >= Len(t) THEN st
  ELSE WrapFrom(WrapStep(st, t[i + 1], i, sw, lim), t, i + 1, sw, lim)

Wrap(t, sw, lim) ==
  WrapFrom([j |-> 0, k |-> -1, lines |-> 0, msg |-> <<>>], t, 0, sw, lim).msg

WrapChar ==
  /\ pc = "wrap" /\ wrap_i < Len(text)
  /\ LET st == WrapStep([j |-> wrap_j, k |-> wrap_k, lines |-> lines, msg |-> msg],
                        text[wrap_i + 1], wrap_i, self_w, WrapWidth)
     IN /\ wrap_j' = st.j
        /\ wrap_k' = st.k
        /\ lines' = st.lines
        /\ msg' = st.msg
  /\ wrap_i' = wrap_i + 1
  /\ UNCHANGED <<self_w, text, screen, ey, ex>>
  /\ UNCHANGED <<kind, self_h, reused, halvars, pc, nb, default, start_index, current_b, entries,
                 cursor_indx, start_indx, item_disp_ct, last_item_indx,
                 entry_val, c, result>>
  /\ UNCHANGED kbdvars

(* Lines 79-80, after the loop *)
WrapEnd ==
  /\ pc = "wrap" /\ wrap_i = Len(text)
  /\ pc' = "wrapped"
  /\ lines' = IF lines > self_h THEN self_h ELSE lines
  /\ UNCHANGED <<self_w, text, wrap_i, wrap_j, wrap_k, msg, screen, ey, ex>>
  /\ UNCHANGED <<kind, self_h, reused, halvars, nb, default, start_index, current_b, entries,
                 cursor_indx, start_indx, item_disp_ct, last_item_indx,
                 entry_val, c, result>>
  /\ UNCHANGED kbdvars

(* The test of lines 91 and 395 that ends the drawing of the message *)
DrawBreak_Mut(y, h) == y > h + 1
DrawBreak(y, h) == y > h

(* The loop of lines 89-96 (393-400) from msg[i] on: the characters        *)
(* written, the y and x it ends with, and whether addch raised because x   *)
(* is beyond the last column of the window, self.w+1.  The addch of a      *)
(* newline writes no character.                                            *)
RECURSIVE DrawFrom(_, _, _, _, _, _, _)
DrawFrom(i, y, x, cells, m, h, lastcol) ==
  IF i > Len(m) THEN [cells |-> cells, y |-> y, x |-> x, raised |-> FALSE]
  ELSE LET ch == m[i]
           y1 == IF ch = NL THEN y + 1 ELSE y
           x1 == IF ch = NL THEN 1 ELSE x
       IN IF ch = NL /\ DrawBreak(y1, h)
          THEN [cells |-> cells, y |-> y1, x |-> x1, raised |-> FALSE]
          ELSE IF x1 > lastcol
          THEN [cells |-> cells, y |-> y1, x |-> x1, raised |-> TRUE]
          ELSE DrawFrom(i + 1, y1, x1 + 1,
                        IF ch = NL THEN cells ELSE cells \cup {<<y1, x1, ch>>},
                        m, h, lastcol)

(* Lines 402-406: where the entry field starts *)
EntryStart(y, x, w, h) ==
  LET wraps == x >= w
      ey1 == IF wraps THEN y + 1 ELSE y
  IN [ex |-> IF wraps THEN 1 ELSE x, ey |-> IF ey1 > h THEN h ELSE ey1]

(* The message drawn, lines 87-96 and 391-406 *)
Draw ==
  /\ pc = "wrapped"
  /\ LET d == DrawFrom(1, 1, 1, {}, msg, self_h, self_w + 1)
         e == EntryStart(d.y, d.x, self_w + 1, self_h)
     IN /\ screen' = d.cells
        /\ pc' = IF d.raised THEN "raised" ELSE "drawn"
        /\ IF kind = "entry" /\ ~d.raised
           THEN ey' = e.ey /\ ex' = e.ex
           ELSE UNCHANGED <<ey, ex>>
  /\ UNCHANGED <<self_w, text, wrap_i, wrap_j, wrap_k, msg, lines>>
  /\ UNCHANGED <<kind, self_h, reused, halvars, nb, default, start_index, current_b, entries,
                 cursor_indx, start_indx, item_disp_ct, last_item_indx,
                 entry_val, c, result>>
  /\ UNCHANGED kbdvars

NextWrap == WrapChar \/ WrapEnd \/ Draw

SpecWrap == InitWrap /\ [][NextWrap]_vars

(* The lines of a wrapped text: what lies between its newlines *)
RECURSIVE WrapLines(_)
WrapLines(s) ==
  IF \A p \in 1..Len(s) : s[p] # NL THEN <<s>>
  ELSE LET p == CHOOSE q \in 1..Len(s) : s[q] = NL /\ \A r \in 1..(q - 1) : s[r] # NL
       IN <<SubSeq(s, 1, p - 1)>> \o WrapLines(SubSeq(s, p + 1, Len(s)))

----------------------------------------------------------------------------
(* The entry box with its prompt: DialogEntryBox.show wraps and draws the  *)
(* prompt, which fixes where the entry field starts, and then echoes the   *)
(* value after every key.                                                  *)

(* s[a:b] of Python *)
PySlice(s, a, b) ==
  LET n == Len(s)
      norm(v) == IF v < 0 THEN (IF v + n < 0 THEN 0 ELSE v + n)
                 ELSE IF v > n THEN n ELSE v
  IN SubSeq(s, norm(a) + 1, norm(b))

(* Lines 466-470: what is echoed of val in a field starting at column x,   *)
(* w being self.w+1                                                        *)
display_val_Mut(val, x, w) ==
  IF Len(val) + x > w
  THEN PySlice(val, Len(val) - (w - x) + 1, Len(val))
  ELSE val

display_val(val, x, w) ==
  IF Len(val) + x > w
  THEN PySlice(val, Len(val) - (w - x), Len(val))
  ELSE val

(* The prompts: 'a' repeated, and a prompt of two lines *)
Prompts ==
  { [p \in 1..n |-> 97] : n \in 0..(MaxWidth + 1) } \cup { <<97, NL, 97>> }

(* DialogEntryBox.show up to its input loop, the prompt included *)
ShowEntryText(n, dflt, txt) ==
  /\ kind = "entry" /\ NotRunning
  /\ nb' = n /\ default' = dflt /\ start_index' = 0
  /\ c' = NOOP
  /\ entries' = <<>> /\ cursor_indx' = 0 /\ start_indx' = 0
  /\ item_disp_ct' = 0 /\ last_item_indx' = 0
  /\ entry_val' = InitialValue(entry_val)
  /\ text' = txt
  /\ LET st == WrapFrom([j |-> 0, k |-> -1, lines |-> 0, msg |-> <<>>],
                        txt, 0, self_w, self_w + 1)
         d == DrawFrom(1, 1, 1, {}, st.msg, self_h, self_w + 1)
         e == EntryStart(d.y, d.x, self_w + 1, self_h)
     IN /\ wrap_i' = Len(txt) /\ wrap_j' = st.j /\ wrap_k' = st.k
        /\ msg' = st.msg
        /\ lines' = IF st.lines > self_h THEN self_h ELSE st.lines
        /\ screen' = d.cells
        /\ IF d.raised
           THEN /\ pc' = "raised" /\ result' = NoResult /\ current_b' = 0
                /\ UNCHANGED <<ey, ex>>
           ELSE /\ pc' = "active" /\ result' = NoResult /\ current_b' = dflt
                /\ ey' = e.ey /\ ex' = e.ex
  /\ reused' = (pc = "returned")
  /\ UNCHANGED halvars
  /\ UNCHANGED <<kind, self_h, self_w>>
  /\ UNCHANGED kbdvars

InitField ==
  /\ KbdIdle
  /\ kind = "entry" /\ \E h \in EntryHeights : self_h = h - 2
  /\ pc = "idle"
  /\ nb = 0 /\ default = 0 /\ start_index = 0
  /\ current_b = 0
  /\ entries = <<>>
  /\ cursor_indx = 0 /\ start_indx = 0
  /\ item_disp_ct = 0 /\ last_item_indx = 0
  /\ entry_val = <<>>
  /\ c = NOOP
  /\ result = NoResult
  /\ reused = FALSE
  /\ HalIdle
  /\ self_w \in 1..MaxWidth /\ text = <<>>
  /\ wrap_i = 0 /\ wrap_j = 0 /\ wrap_k = -1
  /\ msg = <<>> /\ lines = 0
  /\ screen = {} /\ ey = 0 /\ ex = 0

ShowField ==
  \E n \in 1..MaxButtons : \E txt \in Prompts :
    CanShow /\ ShowEntryText(n, 0, txt)

NextField == ShowField \/ Discard \/ EntryKey

SpecField == InitField /\ [][NextField]_vars

----------------------------------------------------------------------------
(* show() on a dialog of any geometry.  __init__ keeps self.h = h-2 and    *)
(* self.w = w-2 for whatever h and w it is given, and show() tests its     *)
(* buttons only (line 55, 205, 358) before it starts on the window.        *)
GeomHeights == (-1)..MaxHeight
GeomWidths == (-1)..(MaxWidth + 2)

InitGeom ==
  /\ KbdIdle
  /\ kind \in {"msg", "list", "entry"}
  /\ \E h \in GeomHeights : self_h = h - 2
  /\ \E w \in GeomWidths : self_w = w - 2
  /\ pc = "idle"
  /\ nb = 0 /\ default = 0 /\ start_index = 0
  /\ current_b = 0
  /\ entries = <<>>
  /\ cursor_indx = 0 /\ start_indx = 0
  /\ item_disp_ct = 0 /\ last_item_indx = 0
  /\ entry_val = <<>>
  /\ c = NOOP
  /\ result = NoResult
  /\ reused = FALSE
  /\ HalIdle
  /\ text = <<>>
  /\ wrap_i = 0 /\ wrap_j = 0 /\ wrap_k = -1
  /\ msg = <<>> /\ lines = 0
  /\ screen = {} /\ ey = 0 /\ ex = 0

(* show() with n buttons, an empty text or a list of one entry, up to and  *)
(* with its first call on the window: win.clear() in the message box       *)
(* (line 83), win.erase() in the list box (223) and the entry box (387).   *)
ShowErase(n, dflt) ==
  /\ pc = "idle"
  /\ nb' = n /\ default' = dflt
  /\ IF n = 0
     THEN /\ pc' = "returned" /\ result' = RetInt(-1)
          /\ UNCHANGED <<current_b, entries>>
     ELSE /\ pc' = "erased" /\ result' = NoResult
          /\ current_b' = dflt
          /\ entries' = IF kind = "list" THEN <<<<65, A_STANDOUT>>>> ELSE <<>>
  /\ reused' = FALSE
  /\ UNCHANGED halvars
  /\ UNCHANGED <<kind, self_h, start_index, cursor_indx, start_indx,
                 item_disp_ct, last_item_indx, entry_val, c>>
  /\ UNCHANGED <<kbdvars, wrapvars>>

(* The column of button i of n, lines 104-113, 259-268, 415-424: labels    *)
(* of len characters on a row of w columns, Python 2 integer division.     *)
ButtonX(i, n, w, len) ==
  LET dx == w \div n
      x0 == dx \div 2
      offset == (len + 2) \div 2
  IN ((i + 1) * dx) - x0 - offset

(* The row and the columns the buttons are written at *)
ButtonRow == self_h
ButtonCols(len) ==
  { ButtonX(i, nb, IF kind = "entry" THEN self_w + 1 ELSE self_w, len) :
      i \in 0..(nb - 1) }

(* The window drawn up to the buttons.  What addstr does with a negative   *)
(* row or column is the curses library's business: it may raise, and it    *)
(* may not.  With the buttons written the loop waits for a keystroke.      *)
DrawButtons ==
  /\ pc = "erased"
  /\ \E len \in 1..MaxLen :
       \/ /\ ButtonRow < 0 \/ \E x \in ButtonCols(len) : x < 0
          /\ pc' = "raised"
       \/ pc' = "active"
  /\ UNCHANGED <<kind, self_h, reused, halvars, nb, default, start_index, current_b,
                 entries, cursor_indx, start_indx, item_disp_ct,
                 last_item_indx, entry_val, c, result>>
  /\ UNCHANGED <<kbdvars, wrapvars>>

ShowGeom == \E n \in Buttons : \E d \in 0..n : ShowErase(n, d)

NextGeom == ShowGeom \/ DrawButtons

SpecGeom == InitGeom /\ [][NextGeom]_vars

(* HALInterface.poll (hal_interface.py lines 50-98), called once in every   *)
(* turn of the main loop (cncterm.py line 197). A step is one call: the     *)
(* three input pins and self.stat hold whatever the machine made of them    *)
(* since the call before. The commands go to self.cmd in the order sent.    *)
(* self.emc and self.auto are attributes that __init__ never sets, so the   *)
(* statements that name them raise AttributeError; the main loop does not   *)
(* catch it and the program ends.                                           *)
Stats == [paused : BOOLEAN, idle : BOOLEAN, queue : BOOLEAN, manual : BOOLEAN]

CMD_ABORT == "abort()"
CMD_MODE_AUTO == "mode(MODE_AUTO)"
CMD_WAIT == "wait_complete()"
CMD_STEP == "auto(AUTO_STEP)"
CMD_RUN == "auto(AUTO_RUN)"

(* 'if abort and not self.abort' (line 52) *)
AbortEdge(a) == a /\ ~hal_abort

(* 'if singleblock ^ self.singleblock' and 'if self.stat.queue > 0 or       *)
(* self.stat.paused' (lines 59-60): both branches under them (lines 62-65)  *)
(* raise, on self.emc and on self.auto                                      *)
SingleBlockRaises(sb, st) == (sb # hal_singleblock) /\ (st.queue \/ st.paused)

(* 'if cyclestart and not self.cyclestart' (line 70) *)
StartEdge(cs) == cs /\ ~hal_cyclestart

(* lines 78-84: auto mode, wait, then step or run *)
StartCmds(sb) == <<CMD_MODE_AUTO, CMD_WAIT, IF sb THEN CMD_STEP ELSE CMD_RUN>>

(* lines 89-98 *)
StatusLight(st) == IF st.paused THEN ~pin_light ELSE (st.queue \/ ~st.idle)

IsStart(cmd) == cmd \in {CMD_STEP, CMD_RUN}

HasAbort(s) == \E i \in 1..Len(s) : s[i] = CMD_ABORT

HasStart(s) == \E i \in 1..Len(s) : IsStart(s[i])

PollWith(a, sb, cs, st) ==
  /\ reached # "raised"
  /\ pin_abort' = a /\ pin_singleblock' = sb /\ pin_cyclestart' = cs
  /\ stat' = st
  /\ tick' = 1 - tick
  /\ IF AbortEdge(a) THEN
       \* lines 52-54: abort is sent and poll returns
       /\ sent' = <<CMD_ABORT>>
       /\ reached' = "abort"
       /\ UNCHANGED <<hal_abort, hal_singleblock, hal_cyclestart, pin_light,
                      pin_jog>>
     ELSE IF SingleBlockRaises(sb, st) THEN
       \* lines 55-65: self.abort is set, the single-block branch raises
       /\ hal_abort' = a
       /\ sent' = <<>>
       /\ reached' = "raised"
       /\ UNCHANGED <<hal_singleblock, hal_cyclestart, pin_light, pin_jog>>
     ELSE IF StartEdge(cs) /\ st.paused THEN
       \* lines 66-75: both branches under 'if self.stat.paused' name self.emc
       /\ hal_abort' = a /\ hal_singleblock' = sb
       /\ sent' = <<>>
       /\ reached' = "raised"
       /\ UNCHANGED <<hal_cyclestart, pin_light, pin_jog>>
     ELSE
       \* lines 66-98: the start if idle, self.cyclestart, jog.active, the light
       /\ hal_abort' = a /\ hal_singleblock' = sb /\ hal_cyclestart' = cs
       /\ sent' = IF StartEdge(cs) /\ st.idle THEN StartCmds(sb) ELSE <<>>
       /\ pin_jog' = st.manual
       /\ pin_light' = StatusLight(st)
       /\ reached' = "end"
  /\ held' = (cs /\ (held \/ HasStart(sent')))
  /\ UNCHANGED <<kind, self_h, reused, pc, nb, default, start_index, c, result>>
  /\ UNCHANGED dlgvars
  /\ UNCHANGED kbdvars
  /\ UNCHANGED wrapvars

Poll == \E a \in BOOLEAN, sb \in BOOLEAN, cs \in BOOLEAN, st \in Stats :
          PollWith(a, sb, cs, st)

InitPoll == NoDialog /\ KbdIdle /\ WrapIdle

NextPoll == Poll

SpecPoll == InitPoll /\ [][NextPoll]_vars

TypeOK ==
  /\ pc \in {"idle", "active", "returned", "raised", "wrap", "wrapped", "drawn",
            "erased"}
  /\ reused \in BOOLEAN
  /\ reached \in {"new", "abort", "end", "raised"} /\ tick \in {0, 1}
  /\ stat \in Stats /\ Len(sent) <= 3
  /\ (ey = 0 \/ ey \in 1..self_h) /\ (ex = 0 \/ ex \in 1..self_w)
  /\ self_w \in Int /\ wrap_i \in 0..Len(text) /\ wrap_j \in Nat
  /\ wrap_k \in (-1)..Len(text) /\ lines \in Nat
  /\ Len(msg) <= Len(text) + lines
  /\ kind \in {"msg", "list", "entry", "none"}
  /\ current_b \in Int /\ cursor_indx \in Int /\ start_indx \in Int

----------------------------------------------------------------------------
(* The number of entry rows a redraw draws, and whether the cursor entry   *)
(* is among them.                                                          *)
EffectiveCapacity == Cardinality(Drawn(start_indx, last_item_indx))

CursorDrawn ==
  start_indx <= cursor_indx /\ cursor_indx < start_indx + EffectiveCapacity

NavCommands == {UP, DOWN, PGUP, PGDN, HOME, END}

InLoop(k) == kind = k /\ pc = "active"

(* C1: in a list dialog opened at an in-range start index, after every Up, *)
(* Down, PageUp, PageDown, Home or End the cursor entry is among the       *)
(* entries the following redraw draws:                                     *)
(* viewportStart <= cursor < viewportStart + effectiveCapacity.            *)
C1_ViewportContainment ==
  (InLoop("list") /\ start_index >= 0 /\ start_index < Total /\ c \in NavCommands)
    => CursorDrawn

(* C2: in every state of a list dialog's input loop 0 <= cursor < total *)
C2_CursorInRange ==
  InLoop("list") => (0 <= cursor_indx /\ cursor_indx < Total)

(* Every byte sequence one get_cmd call can read: one byte, ESC and a      *)
(* second byte, or ESC [ / ESC O and a third byte.                         *)
AllBytes == 0..255
AllStreams ==
  { <<a>> : a \in AllBytes \ {ESC} }
    \cup { <<ESC, b>> : b \in AllBytes \ {LBRACKET, CH_O} }
    \cup { <<ESC, LBRACKET, d>> : d \in AllBytes }
    \cup { <<ESC, CH_O, d>> : d \in AllBytes }

(* C3: an open dialog can be cancelled from the keyboard: some byte        *)
(* sequence is decoded to the Escape command.                              *)
C3_EscapeDecodable ==
  pc = "active" => \E s \in AllStreams : get_cmd(s).cmd = ESCAPE

(* C4: when Escape is dispatched in an active dialog, show returns         *)
(* (-1, -1) in that step and button focus, list cursor, viewport and entry *)
(* value stay as they were.                                                *)
C4_EscapeCancels ==
  [][(pc = "active" /\ c' = ESCAPE)
       => (/\ pc' = "returned"
           /\ result' = RetPair(-1, -1)
           /\ current_b' = current_b
           /\ cursor_indx' = cursor_indx
           /\ start_indx' = start_indx
           /\ entries' = entries
           /\ entry_val' = entry_val)]_vars

C4_Witness ==
  /\ kind = "list" /\ pc = "returned" /\ c = ESCAPE
  /\ result = RetPair(-1, -1)
  /\ cursor_indx = 2 /\ current_b = 1 /\ nb = 2

(* C5: on Select a list dialog returns (currentButton, cursor) as they are *)
(* at that moment; with no command before it, (default, start index).      *)
C5_ListSelect ==
  [][/\ (kind = "list" /\ pc = "idle" /\ pc' = "active")
          => (current_b' = default' /\ cursor_indx' = start_index')
     /\ (InLoop("list") /\ c' = SELECT)
          => (pc' = "returned" /\ result' = RetPair(current_b, cursor_indx))]_vars

C5_Witness ==
  /\ kind = "list" /\ pc = "returned" /\ c = SELECT
  /\ result = RetPair(1, 2) /\ default = 0 /\ start_index = 0

(* The character a printable command stands for *)
Typed(cmd) == 32 + (cmd - PRINTABLE)

(* The entry a jump to character ch from cursor cur selects, as the claim  *)
(* words it (0-based indexes).                                             *)
FirstChar(ents, i) == ents[i + 1][1]
JumpTarget(ch, cur, ents) ==
  LET n == Len(ents)
      after == { i \in (cur + 1)..(n - 1) : i >= 0 /\ lower(FirstChar(ents, i)) = lower(ch) }
      before == { i \in 0..(cur - 1) : lower(FirstChar(ents, i)) = lower(ch) }
  IN IF after # {} THEN Min(after)
     ELSE IF before # {} THEN Min(before)
     ELSE cur

(* C6: on Printable(ch) the cursor moves to the first entry after it whose *)
(* first character is ch ignoring case, else to the first such entry       *)
(* before it, else it stays.                                               *)
C6_JumpToCharacter ==
  [][(InLoop("list") /\ c' >= PRINTABLE)
       => cursor_indx' = JumpTarget(Typed(c'), cursor_indx, entries)]_vars

(* C7: an entry dialog's value starts empty, a printable key appends the   *)
(* character typed, Backspace drops the last character (nothing when       *)
(* empty), and no other command changes the value.                         *)
DropLast(val) == IF val = <<>> THEN <<>> ELSE SubSeq(val, 1, Len(val) - 1)

(* The value after typing the keys ks, one byte each, into an empty field *)
RECURSIVE EntryFold(_)
EntryFold(ks) ==
  IF ks = <<>> THEN <<>>
  ELSE EntryEdit(get_cmd(<<ks[Len(ks)]>>).cmd,
                 EntryFold(SubSeq(ks, 1, Len(ks) - 1)))

PrintableKeys == { b \in FirstBytes : get_cmd(<<b>>).cmd >= PRINTABLE }

C7_EntryEdit ==
  [][/\ EntryFold(<<71, 49, 48, BS, 48>>) = <<71, 49, 48>>
     /\ InLoop("entry") =>
          \A b \in PrintableKeys :
            EntryEdit(BACKSPACE, EntryEdit(get_cmd(<<b>>).cmd, entry_val)) = entry_val
     /\ (kind = "entry" /\ pc = "idle" /\ pc' = "active") => entry_val' = <<>>
     /\ (InLoop("entry") /\ c' >= PRINTABLE)
          => entry_val' = Append(entry_val, Typed(c'))
     /\ (InLoop("entry") /\ c' = BACKSPACE) => entry_val' = DropLast(entry_val)
     /\ (InLoop("entry") /\ c' < PRINTABLE /\ c' # BACKSPACE)
          => entry_val' = entry_val]_vars

C7_Witness ==
  InLoop("entry") /\ c = BACKSPACE /\ entry_val = <<71>>

(* C8: on Select an entry dialog returns (currentButton, value), value     *)
(* being the text typed so far.                                            *)
C8_EntrySelect ==
  [][(InLoop("entry") /\ c' = SELECT)
       => (pc' = "returned" /\ result' = RetPairStr(current_b, entry_val))]_vars

C8_Witness ==
  /\ kind = "entry" /\ pc = "returned" /\ c = SELECT
  /\ result = RetPairStr(1, <<71, 97>>)

(* C9: in every active state of every dialog 0 <= current < len(buttons) *)
C9_ButtonInRange ==
  pc = "active" => (0 <= current_b /\ current_b < nb)

(* C10: from a button index in range Right gives (current+1) mod n and     *)
(* Left gives (current-1) mod n, in all three dialogs.                     *)
C10_ButtonWrap ==
  [][(pc = "active" /\ pc' = "active" /\ 0 <= current_b /\ current_b < nb)
       => (/\ c' = RIGHT => current_b' = (current_b + 1) % nb
           /\ c' = LEFT => current_b' = (current_b - 1) % nb)]_vars

C10_Witness ==
  /\ kind = "msg" /\ pc = "active" /\ c = LEFT
  /\ nb = 2 /\ default = 0 /\ current_b = 1

----------------------------------------------------------------------------
(* C11: Left and Right change the button focus only.  In a list dialog     *)
(* they leave the cursor, viewportStart and the highlighted entry as they  *)
(* were, so that the next redraw shows the same entries; in an entry       *)
(* dialog they leave the value as it was.                                  *)
C11_FocusOnly ==
  [][(pc = "active" /\ pc' = "active" /\ c' \in {LEFT, RIGHT})
       => (/\ kind = "list" =>
                /\ cursor_indx' = cursor_indx
                /\ start_indx' = start_indx
                /\ entries' = entries
                /\ Drawn(start_indx', last_item_indx') = Drawn(start_indx, last_item_indx)
           /\ kind = "entry" => entry_val' = entry_val)]_vars

(* C12: what get_cmd returns for bytes that match no pattern is none of    *)
(* the logical commands and no Printable code, and dispatching it changes  *)
(* nothing: the button focus, the list cursor, viewportStart and the       *)
(* entry value stay, and the dialog stays Active.                          *)
LogicalCommands == UP..BACKSPACE

C12_NoOp ==
  [][(pc = "active" /\ c' = NOOP)
       => (/\ NOOP \notin LogicalCommands /\ NOOP < PRINTABLE
           /\ pc' = "active"
           /\ current_b' = current_b
           /\ cursor_indx' = cursor_indx
           /\ start_indx' = start_indx
           /\ entry_val' = entry_val)]_vars

----------------------------------------------------------------------------
(* C13: each get_cmd call reads exactly the bytes of the keystroke that is *)
(* first in line and none of the keystroke after it, a lone escape key     *)
(* press and an escape sequence the decoder does not know included, so     *)
(* that each call starts at the first byte of a keystroke.                 *)
C13_OneKeystroke ==
  /\ head_whole
  /\ dec_cmd # NoCmd => dec_taken = dec_key

(* C14: get_cmd maps newline to Select, '[' to Home, ']' to End, 127 and 8 *)
(* to Backspace, ESC [ A/B/C/D to Up/Down/Right/Left, ESC [ 5/6 to PageUp/ *)
(* PageDown and ESC O H/F to Home/End, whatever the input before and       *)
(* after, and each call yields one result.                                 *)
KeyTable ==
  (<<NL>> :> SELECT) @@ (<<LBRACKET>> :> HOME) @@ (<<RBRACKET>> :> END)
    @@ (<<DEL>> :> BACKSPACE) @@ (<<BS>> :> BACKSPACE)
    @@ (<<ESC, LBRACKET, CH_A>> :> UP) @@ (<<ESC, LBRACKET, CH_B>> :> DOWN)
    @@ (<<ESC, LBRACKET, CH_C>> :> RIGHT) @@ (<<ESC, LBRACKET, CH_D>> :> LEFT)
    @@ (<<ESC, LBRACKET, CH_5>> :> PGUP) @@ (<<ESC, LBRACKET, CH_6>> :> PGDN)
    @@ (<<ESC, CH_O, CH_H>> :> HOME) @@ (<<ESC, CH_O, CH_F>> :> END)

C14_DecodeTable ==
  /\ dec_cmd # NoCmd => dec_cmd \in Int
  /\ (dec_cmd # NoCmd /\ dec_taken \in DOMAIN KeyTable)
       => dec_cmd = KeyTable[dec_taken]
  /\ \A s \in DOMAIN KeyTable :
       get_cmd(s) = [cmd |-> KeyTable[s], n |-> Len(s), blocked |-> FALSE]

C14_Witness ==
  /\ dec_taken = <<ESC, LBRACKET, CH_C>> /\ dec_cmd = RIGHT
  /\ typed # <<>>

(* C15: get_cmd returns a Printable code exactly for the first bytes b     *)
(* with 32 < b < 127 other than '[' and ']' (not for the space, 32), and   *)
(* the code less the offset is b, the character the list jump compares     *)
(* and the entry value receives.                                           *)
PrintableOffset == PRINTABLE - 32

PrintableUse(cmd, b) ==
  /\ cmd - PrintableOffset = b
  /\ EntryEdit(cmd, <<>>) = <<b>>
  /\ JumpTo(cmd, 0, <<<<48, A_NORMAL>>, <<b, A_NORMAL>>>>) = 1

C15_PrintableRange ==
  dec_cmd # NoCmd =>
    LET b == dec_taken[1] IN
      /\ dec_cmd >= PRINTABLE <=> (32 < b /\ b < 127 /\ b \notin {LBRACKET, RBRACKET})
      /\ dec_cmd >= PRINTABLE => PrintableUse(dec_cmd, b)

(* C15 as the code has it: the range is 31 < b < 127, the space included *)
PrintableBytes ==
  \A b \in AllBytes \ {ESC} :
    /\ get_cmd(<<b>>).cmd >= PRINTABLE <=> (31 < b /\ b < 127 /\ b \notin {LBRACKET, RBRACKET})
    /\ get_cmd(<<b>>).cmd >= PRINTABLE => PrintableUse(get_cmd(<<b>>).cmd, b)

C15_PrintableRangeAmended ==
  /\ dec_cmd # NoCmd =>
       LET b == dec_taken[1] IN
         /\ dec_cmd >= PRINTABLE <=> (31 < b /\ b < 127 /\ b \notin {LBRACKET, RBRACKET})
         /\ dec_cmd >= PRINTABLE => PrintableUse(dec_cmd, b)
  /\ PrintableBytes

C15_Witness ==
  /\ dec_taken = <<32>> /\ dec_cmd = PRINTABLE
  /\ typed # <<>>

----------------------------------------------------------------------------
(* C16: show with no buttons, in each of the three dialogs, returns at     *)
(* once, with nothing drawn and no keystroke read, an error value that no  *)
(* show with buttons returns, neither on Select nor on Escape.             *)
ErrorResult == RetInt(-1)

C16_EmptyButtons ==
  /\ (pc = "returned" /\ nb = 0)
       => /\ result = ErrorResult
          /\ c = NOOP
          /\ Drawn(start_indx, last_item_indx) = {} /\ entries = <<>>
  /\ (pc = "returned" /\ nb > 0) => result # ErrorResult

----------------------------------------------------------------------------
(* C18: every line of a wrapped text holds at most as many characters as   *)
(* the width it was wrapped at, whatever the text.                         *)
C18_LineWidth ==
  pc = "wrapped" =>
    \A l \in 1..Len(WrapLines(msg)) : Len(WrapLines(msg)[l]) <= WrapWidth

(* C19: when a character makes a line exceed the width and the line holds  *)
(* a space, the break replaces the last space: the text before that space  *)
(* ends the line, the characters after it, the one just read included,     *)
(* start the next line, and the space is not in the wrapped text.  Stated  *)
(* for the first break of a text.                                          *)
C19_BreakAtSpace ==
  [][(/\ pc = "wrap" /\ wrap_i < Len(text) /\ lines = 0
      /\ text[wrap_i + 1] # NL /\ wrap_j + 1 > WrapWidth
      /\ wrap_k' # -1)
       => msg' = SubSeq(text, 1, wrap_k') \o <<NL>>
                   \o SubSeq(text, wrap_k' + 2, wrap_i + 1)]_vars

(* C20: in a message box with self.w = 10, "abcdefghij klmno" wraps to the *)
(* lines "abcdefghij", "klmno" and "abc def ghijklmnop" to the lines       *)
(* "abc def", "ghijklmno", "p".                                            *)
C20_Examples ==
  (pc = "wrapped" /\ kind = "msg" /\ self_w = 10)
    => /\ text = Example1
            => WrapLines(msg) = <<SubSeq(Example1, 1, 10), SubSeq(Example1, 12, 16)>>
       /\ text = Example2
            => WrapLines(msg) = <<SubSeq(Example2, 1, 7), SubSeq(Example2, 9, 17),
                                  SubSeq(Example2, 18, 18)>>

----------------------------------------------------------------------------
(* C21: wrapping is idempotent.  A text whose lines hold at most w         *)
(* characters each and end with no space is returned unchanged by the      *)
(* wrap at width w, and wrapping the wrapped text of any text at the same  *)
(* width returns it unchanged: wrap(wrap(t, w), w) = wrap(t, w).           *)
NoTrailingSpace(s) ==
  \A l \in 1..Len(WrapLines(s)) :
    LET ln == WrapLines(s)[l] IN ln = <<>> \/ ln[Len(ln)] # SP

FitsWidth(s, w) ==
  \A l \in 1..Len(WrapLines(s)) : Len(WrapLines(s)[l]) <= w

C21_Idempotent ==
  pc = "wrapped" =>
    /\ (FitsWidth(text, WrapWidth) /\ NoTrailingSpace(text)) => msg = text
    /\ Wrap(msg, self_w, WrapWidth) = msg

----------------------------------------------------------------------------
(* C22: at most h lines of a wrapped text are drawn.  No character of the  *)
(* message is written below text row h; the rows written are the first h  *)
(* lines of the wrapped text and nothing else (no mark that lines were     *)
(* dropped); and a text of any number of lines that fit the width is       *)
(* drawn without an error.                                                 *)
RowCells(r) == { cell \in screen : cell[1] = r }

RowText(r) ==
  LET xs == { cell[2] : cell \in RowCells(r) }
      x0 == IF xs = {} THEN 0 ELSE Min(xs)
  IN [p \in 1..Cardinality(xs) |->
        (CHOOSE cell \in RowCells(r) : cell[2] = x0 + p - 1)[3]]

----------------------------------------------------------------------------
(* C23: a newline of the text makes one line break and resets the column   *)
(* count and the last space; and when a wrap break was made just before a  *)
(* newline of the text, the line that newline ends is not empty and not    *)
(* of spaces only: break and newline together make no extra line.  Said    *)
(* of the lines of the text that are not of spaces only themselves.        *)
Blank(ln) == \A p \in 1..Len(ln) : ln[p] = SP

NewlineNext == pc = "wrap" /\ wrap_i < Len(text) /\ text[wrap_i + 1] = NL

BrokeLast == wrap_i >= 1 /\ wrap_j = 0 /\ text[wrap_i] # NL

(* The line of the text read so far: text after its last newline before i *)
TextLine ==
  LET nls == { p \in 1..wrap_i : text[p] = NL }
      from == IF nls = {} THEN 1 ELSE (CHOOSE p \in nls : \A q \in nls : q <= p) + 1
  IN SubSeq(text, from, wrap_i)

C23_Newline ==
  [][/\ NewlineNext =>
          /\ msg' = Append(msg, NL)
          /\ wrap_j' = 0 /\ wrap_k' = -1
     /\ (NewlineNext /\ BrokeLast /\ ~Blank(TextLine)) =>
          ~Blank(WrapLines(msg')[Len(WrapLines(msg')) - 1])]_vars

----------------------------------------------------------------------------
(* C24: after every key the entry field shows the value in full when it    *)
(* is no longer than the field is wide, and its last fieldWidth            *)
(* characters otherwise, fieldWidth being the columns from the start of    *)
(* the field to its right edge, column self.w; what is shown is always a   *)
(* suffix of the value.                                                    *)
FieldWidth == self_w - ex + 1

Shown == display_val(entry_val, ex, self_w + 1)

IsSuffix(s, v) ==
  Len(s) <= Len(v) /\ s = SubSeq(v, Len(v) - Len(s) + 1, Len(v))

C24_FieldDisplay ==
  InLoop("entry") =>
    /\ FieldWidth >= 1
    /\ Len(entry_val) <= FieldWidth => Shown = entry_val
    /\ Len(entry_val) > FieldWidth =>
         Shown = SubSeq(entry_val, Len(entry_val) - FieldWidth + 1, Len(entry_val))
    /\ IsSuffix(Shown, entry_val)

C24_Witness ==
  /\ InLoop("entry") /\ c >= PRINTABLE
  /\ FieldWidth = 1 /\ entry_val = <<71, 97>> /\ Shown = <<97>>

----------------------------------------------------------------------------
(* C25: a message dialog returns the index of the focused button on        *)
(* Select and the cancellation on Escape; the focus is the default when    *)
(* show starts, and Up, Down, PageUp, PageDown, Home, End, Backspace and   *)
(* the printable commands change nothing in it.                            *)
InertInMsg(cmd) == cmd \in NavCommands \/ cmd = BACKSPACE \/ cmd >= PRINTABLE

C25_MessageDialog ==
  [][/\ (kind = "msg" /\ pc = "idle" /\ pc' = "active") => current_b' = default'
     /\ (InLoop("msg") /\ c' = SELECT)
          => pc' = "returned" /\ result' = RetInt(current_b)
     /\ (InLoop("msg") /\ c' = ESCAPE)
          => pc' = "returned" /\ result' = Cancelled
     /\ (InLoop("msg") /\ InertInMsg(c'))
          => /\ pc' = "active" /\ result' = result
             /\ current_b' = current_b /\ nb' = nb
             /\ UNCHANGED dlgvars]_vars

C25_Witness ==
  /\ kind = "msg" /\ pc = "returned" /\ c = SELECT
  /\ nb = 2 /\ default = 0 /\ result = RetInt(1)


(* C26: every call of show starts afresh, whatever the calls before it on  *)
(* the same dialog received: the button focus is at the default given,     *)
(* the list cursor and the viewport are at the start index given with the  *)
(* cursor entry alone highlighted, and the entry value is empty.           *)
OnlyHighlighted(ents, i) ==
  \A p \in 1..Len(ents) :
    ents[p][2] = A_STANDOUT <=> p = PyIdx(i, Len(ents))

C26_FreshShow ==
  [][(pc # "active" /\ pc' = "active") =>
       /\ current_b' = default'
       /\ kind = "list" =>
            /\ cursor_indx' = start_index'
            /\ start_indx' = start_index'
            /\ OnlyHighlighted(entries', start_index')
       /\ kind = "entry" => entry_val' = <<>>]_vars

(* An entry box shown again on the object a call before has used *)
C26_Witness ==
  /\ reused /\ pc = "active" /\ c = NOOP
  /\ kind = "entry" /\ nb = 2 /\ default = 1
  /\ current_b = 1 /\ entry_val = <<>>


(* C27: a dialog of non-positive geometry, a height or a width of zero or  *)
(* less, fails when show is invoked, before the window is touched and      *)
(* before a keystroke is waited for, in all three dialogs.                 *)
NonPositive == self_h + 2 <= 0 \/ self_w + 2 <= 0

C27_FailsFast == NonPositive => pc \notin {"erased", "active"}

(* C28: in a list dialog Up, Down, PageUp, PageDown, Home and End set the  *)
(* cursor to clamp(cursor-1), clamp(cursor+1), clamp(cursor-capacity),     *)
(* clamp(cursor+capacity), 0 and total-1, capacity being the number of     *)
(* entry rows of the redraw on the screen and clamp restricting to         *)
(* 0..total-1; PageDown never moves the cursor up, PageUp never down.      *)
ClampTo(x, n) == IF x < 0 THEN 0 ELSE IF x > n - 1 THEN n - 1 ELSE x

NavTarget(cmd, cur, cap, n) ==
  IF cmd = UP THEN ClampTo(cur - 1, n)
  ELSE IF cmd = DOWN THEN ClampTo(cur + 1, n)
  ELSE IF cmd = PGUP THEN ClampTo(cur - cap, n)
  ELSE IF cmd = PGDN THEN ClampTo(cur + cap, n)
  ELSE IF cmd = HOME THEN 0
  ELSE n - 1

C28_CursorMoves ==
  [][(kind = "list" /\ pc = "active" /\ pc' = "active" /\ c' \in NavCommands)
       => /\ cursor_indx' = NavTarget(c', cursor_indx, EffectiveCapacity, Total)
          /\ c' = PGDN => cursor_indx' >= cursor_indx
          /\ c' = PGUP => cursor_indx' <= cursor_indx]_vars

(* C29: viewportStart changes only when the cursor after a command lies   *)
(* outside the window viewportStart .. viewportStart + capacity - 1 on the *)
(* screen; it then becomes max(0, cursor - capacity/2), integer division,  *)
(* so that 0 <= viewportStart <= cursor; a command whose cursor lands      *)
(* inside the window leaves viewportStart as it was.                       *)
Max0(x) == IF x < 0 THEN 0 ELSE x

OutsideWindow(cur, s, cap) == cur < s \/ cur >= s + cap

C29_Recenter ==
  [][(kind = "list" /\ pc = "active" /\ pc' = "active")
       => LET cap == EffectiveCapacity IN
          IF OutsideWindow(cursor_indx', start_indx, cap)
          THEN /\ start_indx' = Max0(cursor_indx' - (cap \div 2))
               /\ 0 <= start_indx' /\ start_indx' <= cursor_indx'
          ELSE start_indx' = start_indx]_vars

(* C30: on each list redraw the leading "..." is drawn exactly when        *)
(* viewportStart > 0 and the trailing "..." exactly when viewportStart +   *)
(* capacity < total, capacity being the entry rows left after the leading  *)
(* indicator; each indicator drawn costs one entry row, and no trailing    *)
(* indicator is drawn when the entries from viewportStart to the end fit   *)
(* in the rows that are left.                                              *)
RowsAfterLeading(d) == IF d.above THEN (self_h - 1) - 1 ELSE self_h - 1

C30_Indicators ==
  (kind = "list" /\ pc = "active") =>
    LET d == ListRedraw(start_indx, Total, self_h)
        cap == RowsAfterLeading(d)
    IN /\ item_disp_ct = d.ct
       /\ d.above <=> start_indx > 0
       /\ d.below <=> start_indx + cap < Total
       /\ d.below => item_disp_ct = cap - 1
       /\ Total - start_indx <= cap => ~d.below

(* C31: the capacity a list redraw computes is never negative and at      *)
(* least 1, at least one entry row being drawn, for every window height,   *)
(* every list of one entry or more and every viewportStart the commands    *)
(* reach, also with both indicators drawn.                                 *)
C31_CapacityAtLeastOne ==
  (kind = "list" /\ pc = "active") =>
    item_disp_ct >= 1 /\ EffectiveCapacity >= 1

(* C32: when a character makes a line exceed the width and the line being *)
(* filled holds no space, the break goes into that line, first or later,   *)
(* at its width boundary: the newline is put at the end of what the line   *)
(* holds, or one character before it, never into an earlier line.          *)
LastNL(s) ==
  IF \E p \in 1..Len(s) : s[p] = NL
  THEN CHOOSE p \in 1..Len(s) : s[p] = NL /\ \A q \in (p + 1)..Len(s) : s[q] # NL
  ELSE 0

CurrentLine(s) == SubSeq(s, LastNL(s) + 1, Len(s))

HasSpace(s) == \E p \in 1..Len(s) : s[p] = SP

C32_HardBreak ==
  [][(/\ pc = "wrap" /\ wrap_i < Len(text)
      /\ text[wrap_i + 1] \notin {NL, SP}
      /\ wrap_j + 1 > WrapWidth
      /\ ~HasSpace(CurrentLine(msg)))
       => \E p \in {Len(msg) - 1, Len(msg)} :
            /\ p >= LastNL(msg)
            /\ Len(msg') > p
            /\ SubSeq(msg', 1, p + 1) = Append(SubSeq(msg, 1, p), NL)]_vars

(* C33: wrapping neither loses nor reorders text: the characters of the   *)
(* text other than spaces and newlines are in the wrapped text, each once  *)
(* and in the order of the text, for every text and width.                 *)
IsLetter(x) == x # SP /\ x # NL

Letters(s) == SelectSeq(s, IsLetter)

C33_NothingLost == pc = "wrapped" => Letters(msg) = Letters(text)

(* C34: a dialog with buttons stays Active, waiting for the next          *)
(* keystroke, after every command other than Select and Escape; show       *)
(* returns only on Select, with the focused button, or on Escape, with     *)
(* the cancellation pair; and so, on a keyboard that sooner or later       *)
(* delivers a Select at a keystroke boundary, show returns what Select     *)
(* returns.                                                                *)
Confirmed(res) ==
  \/ kind = "msg" /\ res = RetInt(current_b)
  \/ kind = "list" /\ res = RetPair(current_b, cursor_indx)
  \/ kind = "entry" /\ res = RetPairStr(current_b, entry_val)

C34_ReturnsOnSelect ==
  /\ [][(pc = "active" /\ c' \notin {SELECT, ESCAPE}) => pc' = "active"]_vars
  /\ [][(pc = "active" /\ pc' # "active")
          => /\ pc' = "returned"
             /\ \/ c' = SELECT /\ Confirmed(result')
                \/ c' = ESCAPE /\ result' = Cancelled]_vars
  /\ (pc = "active") ~> (pc = "returned" /\ c = SELECT /\ Confirmed(result))

(* A list box that returned on Select after the cursor and the focus had   *)
(* been moved by other commands.                                           *)
C34_Witness ==
  /\ kind = "list" /\ pc = "returned" /\ c = SELECT
  /\ cursor_indx = 2 /\ current_b = 1 /\ default = 0 /\ start_index = 0
  /\ result = RetPair(1, 2)

(* C35: at every redraw of a list dialog exactly one entry carries the    *)
(* highlight and it is the entry at the cursor, entries[cursor_indx];      *)
(* after a command that moves the cursor to another entry the entry that   *)
(* was highlighted is back to normal.                                      *)
C35_OneHighlight ==
  /\ [](InLoop("list") => OnlyHighlighted(entries, cursor_indx))
  /\ [][(InLoop("list") /\ pc' = "active"
            /\ PyIdx(cursor_indx', Total) # PyIdx(cursor_indx, Total))
          => /\ Attr(entries, cursor_indx) = A_STANDOUT
             /\ Attr(entries', cursor_indx) = A_NORMAL
             /\ Attr(entries', cursor_indx') = A_STANDOUT]_vars

(* Down has moved the highlight from the first entry to the second *)
C35_Witness ==
  /\ InLoop("list") /\ c = DOWN /\ start_index = 0 /\ cursor_indx = 1
  /\ Total = 3
  /\ Attr(entries, 0) = A_NORMAL /\ Attr(entries, 1) = A_STANDOUT

(* C36: the text an entry dialog returns holds only characters get_cmd    *)
(* delivers as Printable: whatever bytes are typed it holds no control     *)
(* character and no '[' or ']', which are decoded as Home and End and      *)
(* leave the value as it is, while every other byte of 32..126, the space  *)
(* included, is appended as typed.                                         *)
EntryChars == (32..126) \ {LBRACKET, RBRACKET}

OnlyEntryChars(val) == \A p \in 1..Len(val) : val[p] \in EntryChars

(* What one key of one byte, and what an escape sequence, does to a value *)
EntryBytes ==
  /\ \A b \in AllBytes \ {ESC} :
       EntryEdit(get_cmd(<<b>>).cmd, <<>>) = IF b \in EntryChars THEN <<b>> ELSE <<>>
  /\ get_cmd(<<LBRACKET>>).cmd = HOME /\ get_cmd(<<RBRACKET>>).cmd = END
  /\ \A st \in AllStreams : get_cmd(st).cmd >= PRINTABLE => Len(st) = 1

C36_PrintableOnly ==
  /\ [](/\ EntryBytes
        /\ kind = "entry" => OnlyEntryChars(entry_val)
        /\ (kind = "entry" /\ pc = "returned" /\ result.kind2 = "str")
             => result.str2 = entry_val)
  /\ [][(InLoop("entry") /\ c' \in {HOME, END}) => entry_val' = entry_val]_vars

(* 'G', a space and then '[' typed: the value is "G " *)
C36_Witness ==
  InLoop("entry") /\ c = HOME /\ entry_val = <<71, 32>>

(* C37: in an entry dialog every character of the value echoed is         *)
(* written at a row above the button row and at a column inside the        *)
(* border, for every prompt and every length of the value: the entry       *)
(* field never shares a row with the buttons.                              *)
EchoCols == { ex + i : i \in 0..(Len(Shown) - 1) }

C37_EchoPosition ==
  InLoop("entry") =>
    /\ ey >= 1 /\ ey < ButtonRow
    /\ \A x \in EchoCols : x >= 1 /\ x <= self_w

----------------------------------------------------------------------------
(* C38: poll sends the abort command once for each rising edge of the      *)
(* abort pin. A poll that finds the pin high after a poll that found it    *)
(* low sends abort, once; a poll that finds the pin high after a poll that *)
(* found it high sends no abort and goes on past the abort test, to the    *)
(* single-block, cycle-start, jog-active and status-light handling.        *)
C38_AbortOncePerEdge ==
  [][ /\ (~pin_abort /\ pin_abort') => sent' = <<CMD_ABORT>>
      /\ (pin_abort /\ pin_abort') =>
            (~HasAbort(sent') /\ reached' # "abort") ]_vars

(* What C38 leaves of the claim: the edge itself sends abort once, and a   *)
(* poll that finds the pin low sends none and goes past the abort test.    *)
AbortOnEdge ==
  [][ /\ (~pin_abort /\ pin_abort') => sent' = <<CMD_ABORT>>
      /\ ~pin_abort' => (~HasAbort(sent') /\ reached' # "abort") ]_vars

(* C39: a poll that finds cycle-start high after a poll that found it low, *)
(* with abort low and the interpreter idle and not paused, sends mode      *)
(* auto, waits, and sends one start command: step if single-block is set,  *)
(* run if not. Once a start was sent, no poll sends another as long as     *)
(* every poll since has found the pin high.                                *)
C39_OneStartPerEdge ==
  [][ /\ ( /\ ~pin_cyclestart /\ pin_cyclestart'
           /\ ~pin_abort' /\ stat'.idle /\ ~stat'.paused )
         => sent' = <<CMD_MODE_AUTO, CMD_WAIT,
                      IF pin_singleblock' THEN CMD_STEP ELSE CMD_RUN>>
      /\ (held /\ pin_cyclestart') => ~HasStart(sent') ]_vars

(* What holds of C39: the start is sent as claimed when poll's own record  *)
(* of the pin is low and the single-block handling before it does not      *)
(* raise; and a held pin never starts twice.                               *)
StartOnSeenEdge ==
  [][ /\ ( /\ ~hal_cyclestart /\ pin_cyclestart'
           /\ ~pin_abort' /\ stat'.idle /\ ~stat'.paused
           /\ ~(pin_singleblock' # hal_singleblock /\ stat'.queue) )
         => sent' = <<CMD_MODE_AUTO, CMD_WAIT,
                      IF pin_singleblock' THEN CMD_STEP ELSE CMD_RUN>>
      /\ (held /\ pin_cyclestart') => ~HasStart(sent') ]_vars

====
